---- MODULE Spec2Model ----
(***************************************************************************)
(* Model of src/Dijkstra.py: dijkstra (lazy-deletion Dijkstra with an      *)
(* optional target and step printing), reconstruir_camino, and the guard   *)
(* of the __main__ block.                                                  *)
(*                                                                         *)
(* Node identifiers are the integers 1..NumNodos (Python compares the heap *)
(* tuples (distancia, nodo) lexicographically, so nodes need an order).    *)
(* Edge weights are 0..MaxPeso: negative weights are outside the           *)
(* documented precondition of the algorithm and are not enumerated, and    *)
(* neither are self-loops, which line 56 skips like any edge into a        *)
(* visited node.                                                           *)
(***************************************************************************)
EXTENDS Integers, Sequences, FiniteSets, TLC

\* ---------------------------------------------------------------- bounds
NumNodos   == 3      \* node identifiers of the enumerated graphs: 1..NumNodos
MaxPeso    == 1      \* edge weights of the enumerated graphs: 0..MaxPeso
MaxAristas == 3      \* at most this many edges in an enumerated graph

Nodos == 1..NumNodos
Pesos == 0..MaxPeso

\* ------------------------------------------------------- Python constants
None == 0            \* Python's None (fin=None, anterior[n] = None); no node is 0
Inf  == 1000000      \* float('inf'): larger than every finite path length

\* ------------------------------------------------------------------ state
VARIABLES
  llamador,       \* "main": the __main__ block runs; "directo": dijkstra is called directly
  grafo,          \* dict of dicts: key node -> (neighbour -> weight)
  inicio,         \* source argument
  fin,            \* target argument, or None
  mostrar_pasos,  \* trace flag
  pc,             \* position of the program
  distancias,     \* dict node -> best known distance
  anterior,       \* dict node -> predecessor or None
  cola,           \* the heap, as the set of its (distancia, nodo) tuples
  visitados,      \* set of settled nodes
  paso,           \* step counter of the printed trace
  salida,         \* the printed step records, in order
  asentados,      \* history: <<nodo, distancia>> of every visitados.add, in order
  descartados,    \* history: number of popped entries skipped by the `continue` of line 37
  destino,        \* the fin argument handed to reconstruir_camino, or None
  camino          \* the value returned by reconstruir_camino

vars == <<llamador, grafo, inicio, fin, mostrar_pasos, pc, distancias, anterior,
          cola, visitados, paso, salida, asentados, descartados, destino, camino>>

entradas == <<llamador, grafo, inicio, fin, mostrar_pasos>>

\* ------------------------------------------------------------ the inputs
VacioDict == [n \in {} |-> 0]

\* The graphs dijkstra is called with: at most MaxAristas weighted edges
\* between distinct nodes of Nodos; every node with an outgoing edge is a key,
\* any other node may or may not be a key (a node that is only a neighbour
\* need not have an entry).
Aristas ==
  {E \in SUBSET {e \in Nodos \X Nodos : e[1] # e[2]} : Cardinality(E) <= MaxAristas}

\* The source of a direct call.  The heap holds the source's entry alone and
\* never again, so its identifier is compared with no other: renaming the
\* nodes in order with the source first gives the same run, and the graphs
\* are enumerated over all the other identifiers.
Origen == 1

Origenes(E) == {e[1] : e \in E}

HacerGrafo(E, w, K) ==
  [u \in K |-> [v \in {x \in Nodos : <<u, x>> \in E} |-> w[<<u, v>>]]]

\* The graph of the __main__ block, with A, B, C, D as 1, 2, 3, 4.
GrafoEjemplo ==
  (1 :> (2 :> 4 @@ 3 :> 2)) @@ (2 :> (3 :> 5 @@ 4 :> 10)) @@ (3 :> (4 :> 3)) @@ (4 :> VacioDict)

\* What the two input() calls of __main__ can yield: a node of the graph or
\* a name that is not in it (5).
EntradasMain == 1..5

\* -------------------------------------------------------------- the heap
\* heapq orders the tuples (distancia, nodo) lexicographically.  A tuple is
\* pushed only when its distance is strictly below distancias[nodo], so the
\* heap never holds two equal tuples and the set of its tuples is its content.
Menor(a, b) == a[1] < b[1] \/ (a[1] = b[1] /\ a[2] < b[2])

\* Variant: the heap hands out its largest tuple (a max-heap).
heappop_mayor(h) == CHOOSE e \in h : \A f \in h : f = e \/ Menor(f, e)

heappop(h) == CHOOSE e \in h : \A f \in h : f = e \/ Menor(e, f)

\* ------------------------------------------------------------ relaxation
\* Line 56-61: the neighbour v of u is relaxed when it is not visited and the
\* candidate distance d + peso is strictly smaller than distancias[v].
Mejora(d, u, v, vis) ==
  /\ v \notin vis
  /\ d + grafo[u][v] < distancias[v]

\* Variant: the comparison of line 61 is missing; every unvisited neighbour is overwritten.
Relajados_sinComparar(d, u, S, vis) == {v \in S : v \notin vis}

\* The neighbours among S that lines 55-64 update, for the node u settled with d.
Relajados(d, u, S, vis) == {v \in S : Mejora(d, u, v, vis)}

\* Neighbours of u whose distancias[v] lookup (line 61) raises KeyError.
Colgantes(u, vis) == {v \in DOMAIN grafo[u] : v \notin vis /\ v \notin DOMAIN distancias}

\* ------------------------------------------------------------------ Init
InitLocales ==
  /\ distancias = VacioDict
  /\ anterior = VacioDict
  /\ cola = {}
  /\ visitados = {}
  /\ paso = 0
  /\ salida = <<>>
  /\ asentados = <<>>
  /\ descartados = 0
  /\ destino = None
  /\ camino = <<>>

InitDirecto ==
  /\ llamador = "directo"
  /\ \E E \in Aristas :
       \E w \in [E -> Pesos] :
         \E X \in SUBSET (Nodos \ Origenes(E)) :
           grafo = HacerGrafo(E, w, Origenes(E) \cup X)
  /\ inicio = Origen
  /\ fin \in Nodos \cup {None}
  /\ mostrar_pasos \in BOOLEAN
  /\ pc = "llamada"
  /\ InitLocales

InitMain ==
  /\ llamador = "main"
  /\ grafo = GrafoEjemplo
  /\ inicio \in EntradasMain
  /\ fin \in EntradasMain
  /\ mostrar_pasos = TRUE
  /\ pc = "main"
  /\ InitLocales

Init == InitDirecto \/ InitMain

\* --------------------------------------------------------------- __main__
\* Lines 167-168: a source or target that is not a key is rejected.
MainRechaza ==
  /\ pc = "main"
  /\ (inicio \notin DOMAIN grafo \/ fin \notin DOMAIN grafo)
  /\ pc' = "rechazado"
  /\ UNCHANGED <<entradas, distancias, anterior, cola, visitados, paso, salida,
                 asentados, descartados, destino, camino>>

\* Lines 169-171: otherwise dijkstra(grafo, inicio, fin, mostrar_pasos=True) is called.
MainLlama ==
  /\ pc = "main"
  /\ ~(inicio \notin DOMAIN grafo \/ fin \notin DOMAIN grafo)
  /\ pc' = "llamada"
  /\ UNCHANGED <<entradas, distancias, anterior, cola, visitados, paso, salida,
                 asentados, descartados, destino, camino>>

\* --------------------------------------------------------------- dijkstra
\* Lines 18-30.  distancias[inicio] = 0 adds inicio as a key when it is not one.
Inicializar ==
  /\ pc = "llamada"
  /\ distancias' = [n \in DOMAIN grafo \cup {inicio} |-> IF n = inicio THEN 0 ELSE Inf]
  /\ anterior' = [n \in DOMAIN grafo |-> None]
  /\ cola' = {<<0, inicio>>}
  /\ visitados' = {}
  /\ paso' = 0
  /\ pc' = "while"
  /\ UNCHANGED <<entradas, salida, asentados, descartados, destino, camino>>

\* Variant: the visited check of lines 36-37 is missing; the node is settled again.
Descartar_sinPrueba ==
  /\ pc = "while"
  /\ cola # {}
  /\ LET e == heappop(cola) IN
       /\ e[2] \in visitados
       /\ cola' = cola \ {e}
       /\ asentados' = Append(asentados, <<e[2], e[1]>>)
  /\ UNCHANGED <<entradas, pc, distancias, anterior, visitados, paso, salida,
                 descartados, destino, camino>>

\* Lines 32-37: the popped node is already visited; the entry is dropped.
Descartar ==
  /\ pc = "while"
  /\ cola # {}
  /\ LET e == heappop(cola) IN
       /\ e[2] \in visitados
       /\ cola' = cola \ {e}
       /\ descartados' = descartados + 1
  /\ UNCHANGED <<entradas, pc, distancias, anterior, visitados, paso, salida,
                 asentados, destino, camino>>

\* Variant: paso is incremented before the step is printed (steps numbered from 1).
Registro_desdeUno(d, u, acts) ==
  [paso |-> paso + 1, nodo |-> u, dist |-> d, snap |-> distancias, act |-> acts]

\* Lines 39-48: the node is added to visitados and, when tracing, its step is
\* printed; acts is the set of "Actualizando" lines (line 67) of the step.
Registro(d, u, acts) ==
  [paso |-> paso, nodo |-> u, dist |-> d, snap |-> distancias, act |-> acts]

Asentar(d, u, acts) ==
  /\ visitados' = visitados \cup {u}
  /\ asentados' = Append(asentados, <<u, d>>)
  /\ IF mostrar_pasos
       THEN /\ salida' = Append(salida, Registro(d, u, acts))
            /\ paso' = paso + 1
       ELSE UNCHANGED <<salida, paso>>

\* Variant: line 63 runs only for a neighbour that has no predecessor yet.
Actualizar_primerAnterior(d, u, R) ==
  /\ distancias' = [n \in DOMAIN distancias |->
                      IF n \in R THEN d + grafo[u][n] ELSE distancias[n]]
  /\ anterior' = [n \in DOMAIN anterior \cup R |->
                      IF n \in R /\ anterior[n] = None THEN u ELSE anterior[n]]
  /\ cola' = (cola \ {heappop(cola)}) \cup {<<d + grafo[u][n], n>> : n \in R}

\* Lines 61-64 for every neighbour in R: new distance, predecessor and heap entry.
Actualizar(d, u, R) ==
  /\ distancias' = [n \in DOMAIN distancias |->
                      IF n \in R THEN d + grafo[u][n] ELSE distancias[n]]
  /\ anterior' = [n \in DOMAIN anterior \cup R |->
                      IF n \in R THEN u ELSE anterior[n]]
  /\ cola' = (cola \ {heappop(cola)}) \cup {<<d + grafo[u][n], n>> : n \in R}

Eventos(d, u, R) == {<<n, d + grafo[u][n], u>> : n \in R}

\* Variant: the test of lines 51-52 comes after the relaxation loop.
AsentarYCortar_tarde ==
  /\ pc = "while"
  /\ cola # {}
  /\ LET e == heappop(cola)
         d == e[1]
         u == e[2]
         vis == visitados \cup {u}
     IN
       /\ u \notin visitados
       /\ fin # None /\ u = fin
       /\ IF u \in DOMAIN grafo /\ Colgantes(u, vis) = {}
            THEN LET R == Relajados(d, u, DOMAIN grafo[u], vis) IN
                   /\ Asentar(d, u, Eventos(d, u, R))
                   /\ Actualizar(d, u, R)
            ELSE /\ Asentar(d, u, {})
                 /\ cola' = cola \ {e}
                 /\ UNCHANGED <<distancias, anterior>>
  /\ pc' = "returned"
  /\ UNCHANGED <<entradas, descartados, destino, camino>>

\* Lines 51-52 then 69: the settled node is the target; break and return.
AsentarYCortar ==
  /\ pc = "while"
  /\ cola # {}
  /\ LET e == heappop(cola) IN
       /\ e[2] \notin visitados
       /\ fin # None /\ e[2] = fin
       /\ Asentar(e[1], e[2], {})
       /\ cola' = cola \ {e}
  /\ pc' = "returned"
  /\ UNCHANGED <<entradas, distancias, anterior, descartados, destino, camino>>

\* Lines 39-64: the node is settled and all its outgoing edges are relaxed.
AsentarYRelajar ==
  /\ pc = "while"
  /\ cola # {}
  /\ LET e == heappop(cola)
         d == e[1]
         u == e[2]
         vis == visitados \cup {u}
     IN
       /\ u \notin visitados
       /\ ~(fin # None /\ u = fin)
       /\ u \in DOMAIN grafo
       /\ Colgantes(u, vis) = {}
       /\ LET R == Relajados(d, u, DOMAIN grafo[u], vis) IN
            /\ Asentar(d, u, Eventos(d, u, R))
            /\ Actualizar(d, u, R)
  /\ UNCHANGED <<entradas, pc, descartados, destino, camino>>

\* Line 55: grafo[nodo_actual] raises KeyError (the source is not a key).
ErrorGrafo ==
  /\ pc = "while"
  /\ cola # {}
  /\ LET e == heappop(cola) IN
       /\ e[2] \notin visitados
       /\ ~(fin # None /\ e[2] = fin)
       /\ e[2] \notin DOMAIN grafo
       /\ Asentar(e[1], e[2], {})
       /\ cola' = cola \ {e}
  /\ pc' = "KeyError_grafo"
  /\ UNCHANGED <<entradas, distancias, anterior, descartados, destino, camino>>

\* Line 61: distancias[vecino] raises KeyError for a neighbour that is not a
\* key.  The neighbours the loop handled before it are those that precede it
\* in the dict's order, which the caller chose: any set S of the others.
ErrorDistancias ==
  /\ pc = "while"
  /\ cola # {}
  /\ LET e == heappop(cola)
         d == e[1]
         u == e[2]
         vis == visitados \cup {u}
     IN
       /\ u \notin visitados
       /\ ~(fin # None /\ u = fin)
       /\ u \in DOMAIN grafo
       /\ Colgantes(u, vis) # {}
       /\ \E S \in SUBSET (DOMAIN grafo[u] \ Colgantes(u, vis)) :
            LET R == Relajados(d, u, S, vis) IN
              /\ Asentar(d, u, Eventos(d, u, R))
              /\ Actualizar(d, u, R)
  /\ pc' = "KeyError_distancias"
  /\ UNCHANGED <<entradas, descartados, destino, camino>>

\* Lines 32 and 69: the heap is empty; the loop ends and the maps are returned.
Retornar ==
  /\ pc = "while"
  /\ cola = {}
  /\ pc' = "returned"
  /\ UNCHANGED <<entradas, distancias, anterior, cola, visitados, paso, salida,
                 asentados, descartados, destino, camino>>

\* ----------------------------------------------------- reconstruir_camino
\* Lines 77-80: the nodes appended by the while loop, target first.  k bounds
\* the walk by the number of keys still unseen plus one.
RECURSIVE Cadena(_, _, _)
Cadena(ant, nodo, k) ==
  IF nodo = None \/ k = 0
    THEN <<>>
    ELSE <<nodo>> \o Cadena(ant, ant[nodo], k - 1)

\* Line 81: camino.reverse().
Invertir(s) == [i \in 1..Len(s) |-> s[Len(s) + 1 - i]]

\* Variant: the test camino[0] != inicio of line 83 is missing.
reconstruir_camino_sinOrigen(ant, ini, fn) ==
  Invertir(Cadena(ant, fn, Cardinality(DOMAIN ant) + 1))

\* Variant: a target without predecessor is reported as having no path.
reconstruir_camino_sinAnterior(ant, ini, fn) ==
  LET cam == Invertir(Cadena(ant, fn, Cardinality(DOMAIN ant) + 1)) IN
    IF Len(cam) < 2 \/ cam[1] # ini THEN <<>> ELSE cam

\* Lines 76-85.
reconstruir_camino(ant, ini, fn) ==
  LET cam == Invertir(Cadena(ant, fn, Cardinality(DOMAIN ant) + 1)) IN
    IF cam = <<>> \/ cam[1] # ini THEN <<>> ELSE cam

\* The targets reconstruir_camino is called with: __main__ passes fin
\* (line 173); a direct caller may ask for any node.
Destinos == IF llamador = "main" THEN {fin} ELSE Nodos

Reconstruir ==
  /\ pc = "returned"
  /\ \E t \in Destinos :
       /\ t \in DOMAIN anterior
       /\ destino' = t
       /\ camino' = reconstruir_camino(anterior, inicio, t)
  /\ pc' = "reconstruido"
  /\ UNCHANGED <<entradas, distancias, anterior, cola, visitados, paso, salida,
                 asentados, descartados>>

\* Line 80: anterior[nodo] raises KeyError when the target is not a key.
ErrorAnterior ==
  /\ pc = "returned"
  /\ \E t \in Destinos :
       /\ t \notin DOMAIN anterior
       /\ destino' = t
  /\ pc' = "KeyError_anterior"
  /\ UNCHANGED <<entradas, distancias, anterior, cola, visitados, paso, salida,
                 asentados, descartados, camino>>

Next ==
  \/ MainRechaza
  \/ MainLlama
  \/ Inicializar
  \/ Descartar
  \/ AsentarYCortar
  \/ AsentarYRelajar
  \/ ErrorGrafo
  \/ ErrorDistancias
  \/ Retornar
  \/ Reconstruir
  \/ ErrorAnterior

Spec == Init /\ [][Next]_vars

\* ==================================================================== 
\* Vocabulary of the properties
\* ==================================================================== 
Claves == DOMAIN grafo

Vecinos == UNION {DOMAIN grafo[u] : u \in Claves}

\* Every node the call mentions.
Universo == Claves \cup Vecinos \cup {inicio}

\* The graph has a node that appears only as a neighbour.
HayColgante == Vecinos \ Claves # {}

\* dijkstra has returned its two maps (and they may have been used since).
Retornado == pc \in {"returned", "reconstruido", "KeyError_anterior"}

EntradaValida == inicio \in Claves /\ (fin = None \/ fin \in Claves)

Minimo(S) == CHOOSE x \in S : \A y \in S : x <= y

\* The end node and the weight of every path without a repeated node that
\* extends a path of weight d from inicio to u through the nodes of visto.
RECURSIVE Caminos(_, _, _)
Caminos(u, visto, d) ==
  {<<u, d>>} \cup
  UNION {Caminos(v, visto \cup {v}, d + grafo[u][v]) :
           v \in (IF u \in Claves THEN DOMAIN grafo[u] ELSE {}) \ visto}

RECURSIVE Suma(_)
Suma(c) == IF Len(c) < 2 THEN 0 ELSE grafo[c[1]][c[2]] + Suma(Tail(c))

\* Brute force: the least sum of edge weights over the paths from inicio to
\* each node (Inf: there is none).
DistMin ==
  LET todos == Caminos(inicio, {inicio}, 0) IN
    [n \in Universo |-> Minimo({Inf} \cup {p[2] : p \in {q \in todos : q[1] = n}})]

\* The nodes reachable from the nodes of S along edges of the graph.
RECURSIVE Cierre(_)
Cierre(S) ==
  LET T == S \cup UNION {DOMAIN grafo[u] : u \in S \cap Claves} IN
    IF T = S THEN S ELSE Cierre(T)

Alcanzable(n) == n \in Cierre({inicio})

EsArista(u, v) == u \in Claves /\ v \in DOMAIN grafo[u]

UltimoPop == heappop(cola)

\* ==================================================================== C1
\* C1 as stated: whenever dijkstra returns for a source that is a key, with
\* fin omitted or supplied, every node reachable from the source has its
\* minimum path weight in the returned distance map.  (Stated for graphs in
\* which every neighbour is a key, so that no node is missing from the map.)
C1_Original ==
  (pc = "returned" /\ inicio \in Claves /\ ~HayColgante) =>
     LET dm == DistMin IN
       \A n \in Universo : dm[n] < Inf => distancias[n] = dm[n]

\* C1 amended: when dijkstra returns for a source that is a key, every
\* reachable node has its minimum path weight in the distance map if fin was
\* omitted; if fin was supplied, this holds for every settled node, and fin
\* itself is settled whenever it is reachable.
C1_DistanciasMinimas ==
  (pc = "returned" /\ inicio \in Claves) =>
     LET dm == DistMin IN
       /\ \A n \in Universo :
            ((fin = None \/ n \in visitados) /\ dm[n] < Inf) =>
               (n \in DOMAIN distancias /\ distancias[n] = dm[n])
       /\ (fin # None /\ fin \in Universo /\ dm[fin] < Inf) => fin \in visitados

\* A full run that discarded a stale entry and found a two-edge shortest path.
C1_Witness ==
  /\ pc = "returned" /\ fin = None /\ inicio \in Claves
  /\ descartados > 0
  /\ \E n \in DOMAIN anterior :
       /\ anterior[n] # None
       /\ anterior[anterior[n]] # None
       /\ distancias[n] = DistMin[n]

\* ==================================================================== C2
\* C2 as stated: a call whose source is not a key, or whose supplied target
\* is not a key, fails before any computation: no node is settled, no
\* distance is relaxed and no distance map is returned.
C2_Original ==
  (inicio \notin Claves \/ (fin # None /\ fin \notin Claves)) =>
     /\ visitados = {}
     /\ \A n \in DOMAIN distancias : n # inicio => distancias[n] = Inf
     /\ ~Retornado

\* ==================================================================== C3
\* C3: if the target is a key that is not reachable from the source, then
\* after dijkstra returns its distance is infinite, its predecessor is None
\* and reconstruir_camino for it returns the empty sequence.
C3_DestinoInalcanzable ==
  (Retornado /\ fin # None /\ fin \in Claves /\ ~Alcanzable(fin)) =>
     /\ distancias[fin] = Inf
     /\ anterior[fin] = None
     /\ (pc = "reconstruido" /\ destino = fin) => camino = <<>>

\* The path to an unreachable key target was asked for after a run that
\* settled at least two nodes.
C3_Witness ==
  /\ pc = "reconstruido" /\ destino = fin
  /\ fin \in Claves /\ ~Alcanzable(fin)
  /\ Cardinality(visitados) >= 2
  /\ camino = <<>>

\* ==================================================================== C4
\* C4: a non-empty sequence returned by reconstruir_camino on dijkstra's
\* predecessor map starts at the source, ends at the target, follows edges
\* of the graph, and its weights add up to the target's distance.
C4_CaminoCorresponde ==
  (pc = "reconstruido" /\ camino # <<>>) =>
     /\ camino[1] = inicio
     /\ camino[Len(camino)] = destino
     /\ \A i \in 1..(Len(camino) - 1) : EsArista(camino[i], camino[i + 1])
     /\ Suma(camino) = distancias[destino]

\* A three-node path to the call's target, whose predecessor was replaced
\* during the run (a stale entry of the path's end was discarded or is queued).
C4_Witness ==
  /\ pc = "reconstruido" /\ destino = fin
  /\ Len(camino) = 3
  /\ EsArista(inicio, destino)
  /\ Suma(camino) < grafo[inicio][destino]

\* ==================================================================== C5
\* C5: for a source that is a key, reconstruir_camino with target = source
\* on dijkstra's predecessor map returns the one-element sequence [source].
C5_OrigenIgualDestino ==
  (pc = "reconstruido" /\ inicio \in Claves /\ destino = inicio) =>
     camino = <<inicio>>

\* The source's own path was asked for after a run that settled a node with
\* an edge back into the source.
C5_Witness ==
  /\ pc = "reconstruido" /\ destino = inicio /\ inicio \in Claves
  /\ \E u \in visitados \ {inicio} : EsArista(u, inicio)
  /\ camino = <<inicio>>

\* ==================================================================== C6
SinRepetidos ==
  \A i, j \in 1..Len(asentados) : asentados[i][1] = asentados[j][1] => i = j

NoDecreciente ==
  \A i, j \in 1..Len(asentados) : i <= j => asentados[i][2] <= asentados[j][2]

PopViejo ==
  (pc = "while" /\ cola # {} /\ UltimoPop[2] \in visitados) =>
     /\ visitados' = visitados
     /\ asentados' = asentados
     /\ distancias' = distancias
     /\ anterior' = anterior
     /\ cola' = cola \ {UltimoPop}

\* C6: every node enters the visited set at most once, a popped entry whose
\* node is already visited is dropped without relaxing any edge, and the
\* distances with which nodes are settled are non-decreasing in settlement order.
C6_AsentadoUnaVez ==
  /\ [](SinRepetidos /\ NoDecreciente /\ Cardinality(visitados) = Len(asentados))
  /\ [][PopViejo]_vars

\* A stale entry has been discarded in a run that settled three nodes.
C6_Witness ==
  /\ descartados > 0
  /\ Len(asentados) >= 3
  /\ pc = "while"

\* ==================================================================== C7
\* C7: with tracing on there is exactly one step record per settled node, in
\* settlement order, numbered 0, 1, 2, ..., none for discarded entries, and
\* the first record is the source with distance 0.
C7_UnRegistroPorAsentado ==
  mostrar_pasos =>
     /\ Len(salida) = Cardinality(visitados)
     /\ Len(salida) = Len(asentados)
     /\ paso = Len(salida)
     /\ \A i \in 1..Len(salida) :
          /\ salida[i].paso = i - 1
          /\ salida[i].nodo = asentados[i][1]
          /\ salida[i].dist = asentados[i][2]
     /\ Len(salida) >= 1 => (salida[1].nodo = inicio /\ salida[1].dist = 0)

\* A traced run that printed three steps and discarded a stale entry.
C7_Witness ==
  /\ mostrar_pasos
  /\ Len(salida) = 3
  /\ descartados > 0
  /\ pc = "returned"

\* ==================================================================== C9
AsientaFin == fin # None /\ fin \notin visitados /\ fin \in visitados'

CorteEnFin ==
  AsientaFin =>
     /\ pc' = "returned"
     /\ distancias' = distancias
     /\ anterior' = anterior
     /\ cola' = cola \ {UltimoPop}
     /\ visitados' = visitados \cup {fin}

TrasRetorno ==
  Retornado =>
     /\ Retornado'
     /\ UNCHANGED <<distancias, anterior, cola, visitados, asentados, descartados>>

\* C9: the step that settles the supplied target ends the loop: none of the
\* target's outgoing edges is relaxed, nothing more is popped or settled, and
\* the returned maps are those of the moment the target was settled.
C9_CorteInmediato ==
  /\ [][CorteEnFin /\ TrasRetorno]_vars
  /\ []((fin # None /\ fin \in visitados) =>
          (pc # "while" /\ asentados[Len(asentados)][1] = fin))

\* The target was settled while an edge out of it would still have improved
\* an unvisited neighbour and the heap still held entries.
C9_Witness ==
  /\ pc = "returned" /\ fin # None /\ fin \in visitados
  /\ cola # {}
  /\ fin \in Claves
  /\ \E v \in DOMAIN grafo[fin] :
       /\ v \in DOMAIN distancias
       /\ v \notin visitados
       /\ distancias[fin] + grafo[fin][v] < distancias[v]

\* =================================================================== C10
NuncaSube ==
  \A n \in DOMAIN distancias :
     n \in DOMAIN distancias' /\ distancias'[n] <= distancias[n]

AsentadoFijo ==
  \A i \in 1..Len(asentados) :
     /\ asentados[i][1] \in DOMAIN distancias
     /\ distancias[asentados[i][1]] = asentados[i][2]

\* C10: no step raises an entry of the distance map, and a visited node's
\* entry equals the distance it was popped with for the rest of the run.
C10_Monotona ==
  /\ [][NuncaSube]_vars
  /\ []AsentadoFijo

\* A node was lowered twice (its older heap entry is still queued or was
\* discarded) and a settled node has an edge into another settled node.
C10_Witness ==
  /\ Len(asentados) >= 2
  /\ \E n \in DOMAIN anterior :
       /\ anterior[n] # None /\ anterior[n] # inicio
       /\ EsArista(inicio, n)
       /\ distancias[n] < grafo[inicio][n]
  /\ \E u, v \in visitados : u # v /\ EsArista(u, v)

\* ==================================================================== C8
\* C8 as stated: a graph with a node that appears only as a neighbour is a
\* valid input: dijkstra does not fail on it, and the returned distance map
\* has that node as a key with its shortest distance when it is reachable.
C8_Original ==
  (EntradaValida /\ HayColgante) =>
     /\ pc \notin {"KeyError_grafo", "KeyError_distancias"}
     /\ (pc = "returned" /\ fin = None) =>
           LET dm == DistMin IN
             \A n \in Vecinos \ Claves :
                dm[n] < Inf => (n \in DOMAIN distancias /\ distancias[n] = dm[n])
====
